---- MODULE Spec2Model ----
(***************************************************************************)
(* Host-side driver for the STM32 AN3155 UART bootloader protocol.         *)
(*                                                                         *)
(* The session (struct AN3155) owns a serial byte stream.  Every public    *)
(* method is a sequence of writes to and exact reads from that stream.     *)
(* The model threads a session record                                      *)
(*     [rx, dev, io, val, err, dst, calls, plan]                           *)
(* through operators that carry the names of the Rust methods:             *)
(*   rx   bytes the stream will deliver to the next reads, oldest first    *)
(*   dev  the state of the bootloader at the other end of the line         *)
(*   io   the log of stream calls made so far by the running operation     *)
(*   val  the value produced by the last read / the method's Ok value      *)
(*   err  Ok, or the error (or panic) that ended the operation             *)
(*   dst  the caller's `&mut [u8]` handed to the last read_memory          *)
(*   calls  the session calls an orchestrator (flash) has made             *)
(*   plan the pages an orchestrator (erase) has planned to erase           *)
(* A Rust `let x = step?; rest` becomes Try(step, LAMBDA x : rest).        *)
(***************************************************************************)
EXTENDS Integers, Sequences, FiniteSets, TLC

VARIABLES
    build,      \* [overflow_checks]: the profile the crate was compiled with
    env,        \* what is at the other end of the line: "device" | "double"
    serial,     \* [rx, dev]: the stream between two operations
    io,         \* stream calls made by the last operation
    op,         \* the last operation called, with its arguments
    ret,        \* its result: [t |-> "Ok", v |-> value] or an error
    dest,       \* the caller's destination buffer after read_memory
    calls,      \* session calls made by the last orchestrator run
    plan,       \* pages_to_erase of the last orchestrator run
    nops        \* number of operations run in this session

vars == <<build, env, serial, io, op, ret, dest, calls, plan, nops>>

-----------------------------------------------------------------------------
(* Bounds of the model *)

\* operations per session
MaxOps == 2
\* a scripted response is corrupted or cut only within its first bytes
\* (and at its last byte)
MaxFaultPos == 6

-----------------------------------------------------------------------------
(* Constants of the crate *)

SYNC_BYTE == 127
MAX_ERASE_PAGE_COUNT == 255
MAX_WRITE_BYTES_COUNT == 256
MAX_READ_BYTES_COUNT == 256
DEFAULT_PAGE_SIZE == 128
DEFAULT_START_ADDRESS == 134217728

BootloaderCommand ==
    [ Get |-> 0, GetVersion |-> 1, GetId |-> 2, ReadMemory |-> 17, Go |-> 33,
      WriteMemory |-> 49, Erase |-> 67, ExtendedErase |-> 68, Special |-> 80,
      ExtendedSpecial |-> 81, WriteProtect |-> 99, WriteUnprotect |-> 115,
      ReadoutProtect |-> 130, ReadoutUnprotect |-> 146, GetChecksum |-> 161 ]

Response == [ Ack |-> 121, Nack |-> 31 ]

\* enum BankErase, by discriminant
BankErase == [Global |-> 0, Bank1 |-> 1, Bank2 |-> 2]

-----------------------------------------------------------------------------
(* Results *)

Ok == [t |-> "Ok", v |-> 0]
Err(kind, value) == [t |-> kind, v |-> value]
\* panic!, arithmetic overflow under overflow-checks, slice index out of range
Panic(what) == [t |-> "Panic", v |-> what]
\* panic! {"Verification failed for byte #{}", byte}
VerificationFailed(byte) == [t |-> "PanicVerification", v |-> byte]
IsPanic(r) == r.t \in {"Panic", "PanicVerification"}

\* the operation that produced session record s has ended with an error
Failed(s) == s.err.t # "Ok"

\* `let s1 = step?; rest`: the rest runs on the session the step left, unless
\* the step failed, and then its error is the result
Try(s, rest(_)) == IF Failed(s) THEN s ELSE rest(s)

\* `let v = value; rest`
With(v, rest(_)) == rest(v)

-----------------------------------------------------------------------------
(* Fixed-width arithmetic *)

Pow2(w) == IF w = 8 THEN 256 ELSE 65536

\* `x as u8`, `x as u16`: truncation
AsU8(x) == x % 256
AsU16(x) == x % 65536

\* a +, - or * on a u8 (w = 8) or u16 (w = 16) whose mathematical result is x:
\* overflows (of) when x does not fit; the wrapped value is what a build
\* without overflow checks computes
Arith(x, w) == [v |-> x % Pow2(w), of |-> (x < 0 \/ x >= Pow2(w))]

RECURSIVE XorBits(_, _, _)
XorBits(a, b, w) ==
    IF w = 0 THEN 0
    ELSE ((a + b) % 2) + 2 * XorBits(a \div 2, b \div 2, w - 1)

\* a ^ b on u8
Xor8(a, b) == XorBits(a, b, 8)

\* !a on u8
Not8(a) == 255 - a

\* seq[lo] ^ seq[lo+1] ^ ... ^ seq[hi], lo <= hi.  ^ is associative, so the
\* halves are folded apart to keep the recursion shallow on long buffers.
RECURSIVE XorRange(_, _, _)
XorRange(seq, lo, hi) ==
    IF lo = hi THEN seq[lo]
    ELSE LET mid == (lo + hi) \div 2
         IN  Xor8(XorRange(seq, lo, mid), XorRange(seq, mid + 1, hi))

\* iter().fold(acc, |acc, b| acc ^ b)
XorFold(acc, seq) ==
    IF Len(seq) = 0 THEN acc ELSE Xor8(acc, XorRange(seq, 1, Len(seq)))

\* u32::to_be_bytes, u16::to_be_bytes, u16::from_be_bytes
U32ToBe(x) == << (x \div 16777216) % 256, (x \div 65536) % 256,
                 (x \div 256) % 256, x % 256 >>
U16ToBe(x) == << (x \div 256) % 256, x % 256 >>
U16FromBe(b) == b[1] * 256 + b[2]

Min(a, b) == IF a < b THEN a ELSE b

-----------------------------------------------------------------------------
(* The bootloader at the other end of the line, as the wire-format table   *)
(* describes it.  It collects the bytes of the frame it is waiting for     *)
(* (need = bytes still missing) and answers when the frame is complete.    *)

DevVersion == 49
DevProductId == 1040
DevCommandsStd == << 0, 1, 2, 17, 33, 49, 67, 99, 115, 130, 146 >>
DevCommandsExt == << 0, 1, 2, 17, 33, 49, 68, 99, 115, 130, 146 >>

DevInit(cmds) ==
    [st |-> "cmd", acc |-> << >>, need |-> 2, addr |-> 0, cmds |-> cmds,
     mem |-> << >>]

DevIdle(d) == [d EXCEPT !.st = "cmd", !.acc = << >>, !.need = 2]
DevWait(d, st, acc, need) == [d EXCEPT !.st = st, !.acc = acc, !.need = need]

DevSupports(d, c) == \E i \in 1..Len(d.cmds) : d.cmds[i] = c

\* the flash page an address lies in
DevPageOf(a) == (a - DEFAULT_START_ADDRESS) \div DEFAULT_PAGE_SIZE

DevStore(d, data) ==
    LET span == d.addr .. (d.addr + Len(data) - 1)
    IN  [a \in (DOMAIN d.mem) \cup span |->
            IF a \in span THEN data[a - d.addr + 1] ELSE d.mem[a]]

DevLoad(d, n) ==
    [i \in 1..n |-> IF (d.addr + i - 1) \in DOMAIN d.mem
                    THEN d.mem[d.addr + i - 1] ELSE 255]

DevErase(d, pages) ==
    LET keep == {a \in DOMAIN d.mem :
                    \A i \in 1..Len(pages) : DevPageOf(a) # pages[i]}
    IN  [a \in keep |-> d.mem[a]]

\* the 2-byte pages of an extended-erase payload [count_hi, count_lo, pages..]
DevPages16(frame) ==
    [i \in 1..((Len(frame) - 3) \div 2) |-> frame[2 * i + 1] * 256 + frame[2 * i + 2]]

\* a complete command header [c, ~c]
DevCommand(d, frame) ==
    LET c == frame[1]
        ack == << Response.Ack >>
    IN  IF frame[2] # Not8(c) \/ ~DevSupports(d, c)
        THEN [dev |-> DevIdle(d), out |-> << Response.Nack >>]
        ELSE IF c = BootloaderCommand.GetVersion
        THEN [dev |-> DevIdle(d), out |-> << Response.Ack, DevVersion, 0, 0, Response.Ack >>]
        ELSE IF c = BootloaderCommand.GetId
        THEN [dev |-> DevIdle(d),
              out |-> << Response.Ack, 1 >> \o U16ToBe(DevProductId) \o ack]
        ELSE IF c = BootloaderCommand.Get
        THEN [dev |-> DevIdle(d),
              out |-> << Response.Ack, Len(d.cmds), DevVersion >> \o d.cmds \o ack]
        ELSE IF c = BootloaderCommand.Erase
        THEN [dev |-> DevWait(d, "er_n", << >>, 1), out |-> ack]
        ELSE IF c = BootloaderCommand.ExtendedErase
        THEN [dev |-> DevWait(d, "xe_n", << >>, 2), out |-> ack]
        ELSE IF c = BootloaderCommand.WriteMemory
        THEN [dev |-> DevWait(d, "wm_addr", << >>, 5), out |-> ack]
        ELSE IF c = BootloaderCommand.ReadMemory
        THEN [dev |-> DevWait(d, "rm_addr", << >>, 5), out |-> ack]
        ELSE [dev |-> DevIdle(d), out |-> << Response.Nack >>]

\* a complete frame of the exchange the bootloader is in
DevFrame(d, frame) ==
    LET ack == << Response.Ack >>
        nack == [dev |-> DevIdle(d), out |-> << Response.Nack >>]
        sumOk == XorFold(0, frame) = 0
    IN  CASE d.st = "cmd" -> DevCommand(d, frame)
          [] d.st \in {"wm_addr", "rm_addr"} ->
                IF ~sumOk THEN nack
                ELSE [dev |-> [DevWait(d, IF d.st = "wm_addr" THEN "wm_n" ELSE "rm_n",
                                       << >>, IF d.st = "wm_addr" THEN 1 ELSE 2)
                                 EXCEPT !.addr = frame[1] * 16777216 + frame[2] * 65536
                                                 + frame[3] * 256 + frame[4]],
                      out |-> ack]
          [] d.st = "wm_n" ->
                [dev |-> DevWait(d, "wm_data", frame, frame[1] + 2), out |-> << >>]
          [] d.st = "wm_data" ->
                IF ~sumOk THEN nack
                ELSE [dev |-> [DevIdle(d) EXCEPT
                                 !.mem = DevStore(d, SubSeq(frame, 2, Len(frame) - 1))],
                      out |-> ack]
          [] d.st = "rm_n" ->
                IF frame[2] # Not8(frame[1]) THEN nack
                ELSE [dev |-> DevIdle(d), out |-> DevLoad(d, frame[1] + 1) \o ack]
          [] d.st = "er_n" ->
                IF frame[1] = 255
                THEN [dev |-> DevWait(d, "er_all_std", frame, 1), out |-> << >>]
                ELSE [dev |-> DevWait(d, "er_pages", frame, frame[1] + 2), out |-> << >>]
          \* the standard global erase is the fixed payload [0xFF, 0x00]
          [] d.st = "er_all_std" ->
                IF frame # << 255, 0 >> THEN nack
                ELSE [dev |-> [DevIdle(d) EXCEPT !.mem = << >>], out |-> ack]
          [] d.st = "er_all" ->
                IF ~sumOk THEN nack
                ELSE [dev |-> [DevIdle(d) EXCEPT !.mem = << >>], out |-> ack]
          [] d.st = "er_pages" ->
                IF ~sumOk THEN nack
                ELSE [dev |-> [DevIdle(d) EXCEPT
                                 !.mem = DevErase(d, SubSeq(frame, 2, Len(frame) - 1))],
                      out |-> ack]
          [] d.st = "xe_n" ->
                IF U16FromBe(frame) >= 65533
                THEN [dev |-> DevWait(d, "er_all", frame, 1), out |-> << >>]
                ELSE [dev |-> DevWait(d, "xe_pages", frame, 2 * U16FromBe(frame) + 1),
                      out |-> << >>]
          [] d.st = "xe_pages" ->
                IF ~sumOk THEN nack
                ELSE [dev |-> [DevIdle(d) EXCEPT !.mem = DevErase(d, DevPages16(frame))],
                      out |-> ack]

\* the bootloader receives bytes: [dev |-> its new state, out |-> its answer]
RECURSIVE DevFeed(_, _)
DevFeed(d, bytes) ==
    IF bytes = << >> THEN [dev |-> d, out |-> << >>]
    ELSE IF Len(bytes) < d.need
    THEN [dev |-> [d EXCEPT !.acc = @ \o bytes, !.need = @ - Len(bytes)], out |-> << >>]
    ELSE With(DevFrame(d, d.acc \o SubSeq(bytes, 1, d.need)), LAMBDA r :
         With(DevFeed(r.dev, SubSeq(bytes, d.need + 1, Len(bytes))), LAMBDA rest :
            [dev |-> rest.dev, out |-> r.out \o rest.out]))

-----------------------------------------------------------------------------
(* The serial stream *)

Event(kind, bytes) == [k |-> kind, b |-> bytes]

\* serial.write(bytes): every byte is accepted; val is the count written.
\* The device sees the bytes at once; a scripted double only records them.
serial_write(s, bytes) ==
    With(IF env = "device" THEN DevFeed(s.dev, bytes) ELSE [dev |-> s.dev, out |-> << >>],
         LAMBDA fed :
            [s EXCEPT !.io = Append(@, Event("w", bytes)),
                      !.rx = @ \o fed.out,
                      !.dev = fed.dev,
                      !.val = Len(bytes)])

\* serial.flush()
serial_flush(s) == [s EXCEPT !.io = Append(@, Event("f", << >>))]

\* serial.read_exact(buf) with buf.len() = k: val is the filled buffer; when
\* fewer than k bytes arrive before the timeout the call fails and the bytes
\* that did arrive are gone
serial_read_exact(s, k) ==
    IF Len(s.rx) < k
    THEN [s EXCEPT !.io = Append(@, Event("r", s.rx)),
                   !.rx = << >>,
                   !.err = Err("Io", "UnexpectedEof")]
    ELSE [s EXCEPT !.io = Append(@, Event("r", SubSeq(s.rx, 1, k))),
                   !.rx = SubSeq(@, k + 1, Len(@)),
                   !.val = SubSeq(s.rx, 1, k)]

\* serial.read(buf) with buf.len() = k: val is what arrived, at most k bytes;
\* when nothing arrives before the timeout the call fails
serial_read(s, k) ==
    IF s.rx = << >>
    THEN [s EXCEPT !.io = Append(@, Event("r", << >>)),
                   !.err = Err("Io", "TimedOut")]
    ELSE [s EXCEPT !.io = Append(@, Event("r", SubSeq(s.rx, 1, Min(k, Len(s.rx))))),
                   !.rx = SubSeq(@, Min(k, Len(@)) + 1, Len(@)),
                   !.val = SubSeq(s.rx, 1, Min(k, Len(s.rx)))]

-----------------------------------------------------------------------------
(* impl TryFrom<u8> *)

\* Response::try_from were it to take every byte that is no Ack for a Nack
ResponseTryFrom_else_nack(v) ==
    IF v = 121 THEN [t |-> "Ok", v |-> "Ack"] ELSE [t |-> "Ok", v |-> "Nack"]

ResponseTryFrom(v) ==
    IF v = 121 THEN [t |-> "Ok", v |-> "Ack"]
    ELSE IF v = 31 THEN [t |-> "Ok", v |-> "Nack"]
    ELSE Err("InvalidResponse", v)

\* BootloaderCommand::try_from were the arms of 0x43 and 0x44 exchanged
BootloaderCommandTryFrom_erase_swapped(v) ==
    CASE v = 0 -> [t |-> "Ok", v |-> "Get"]
      [] v = 1 -> [t |-> "Ok", v |-> "GetVersion"]
      [] v = 2 -> [t |-> "Ok", v |-> "GetId"]
      [] v = 17 -> [t |-> "Ok", v |-> "ReadMemory"]
      [] v = 33 -> [t |-> "Ok", v |-> "Go"]
      [] v = 49 -> [t |-> "Ok", v |-> "WriteMemory"]
      [] v = 67 -> [t |-> "Ok", v |-> "ExtendedErase"]
      [] v = 68 -> [t |-> "Ok", v |-> "Erase"]
      [] v = 80 -> [t |-> "Ok", v |-> "Special"]
      [] v = 81 -> [t |-> "Ok", v |-> "ExtendedSpecial"]
      [] v = 99 -> [t |-> "Ok", v |-> "WriteProtect"]
      [] v = 115 -> [t |-> "Ok", v |-> "WriteUnprotect"]
      [] v = 130 -> [t |-> "Ok", v |-> "ReadoutProtect"]
      [] v = 146 -> [t |-> "Ok", v |-> "ReadoutUnprotect"]
      [] v = 161 -> [t |-> "Ok", v |-> "GetChecksum"]
      [] OTHER -> Err("InvalidBootloaderCommand", v)

BootloaderCommandTryFrom(v) ==
    CASE v = 0 -> [t |-> "Ok", v |-> "Get"]
      [] v = 1 -> [t |-> "Ok", v |-> "GetVersion"]
      [] v = 2 -> [t |-> "Ok", v |-> "GetId"]
      [] v = 17 -> [t |-> "Ok", v |-> "ReadMemory"]
      [] v = 33 -> [t |-> "Ok", v |-> "Go"]
      [] v = 49 -> [t |-> "Ok", v |-> "WriteMemory"]
      [] v = 67 -> [t |-> "Ok", v |-> "Erase"]
      [] v = 68 -> [t |-> "Ok", v |-> "ExtendedErase"]
      [] v = 80 -> [t |-> "Ok", v |-> "Special"]
      [] v = 81 -> [t |-> "Ok", v |-> "ExtendedSpecial"]
      [] v = 99 -> [t |-> "Ok", v |-> "WriteProtect"]
      [] v = 115 -> [t |-> "Ok", v |-> "WriteUnprotect"]
      [] v = 130 -> [t |-> "Ok", v |-> "ReadoutProtect"]
      [] v = 146 -> [t |-> "Ok", v |-> "ReadoutUnprotect"]
      [] v = 161 -> [t |-> "Ok", v |-> "GetChecksum"]
      [] OTHER -> Err("InvalidBootloaderCommand", v)

-----------------------------------------------------------------------------
(* struct Version(u8) *)

RECURSIVE AndBits(_, _, _)
AndBits(a, b, w) ==
    IF w = 0 THEN 0
    ELSE ((a % 2) * (b % 2)) + 2 * AndBits(a \div 2, b \div 2, w - 1)

\* a & b and a >> k on u8
And8(a, b) == AndBits(a, b, 8)
Shr8(a, k) == a \div (2 ^ k)

\* impl From<u8> for Version: the byte, wrapped
Version_from(v) == v

Version_major(self) == Shr8(self, 4)

\* Version::minor were its mask 0xF0
Version_minor_mask_f0(self) == And8(self, 240)

Version_minor(self) == And8(self, 15)

Version_value(self) == << Version_major(self), Version_minor(self) >>

-----------------------------------------------------------------------------
(* impl AN3155: private helpers *)

write(s, bytes) == serial_write(s, bytes)

read_exact(s, k) == serial_read_exact(s, k)

read_byte(s) ==
    Try(read_exact(s, 1), LAMBDA s1 : [s1 EXCEPT !.val = s1.val[1]])

\* read_ack were it to take a Nack for an Ack
read_ack_nack_accepted(s) ==
    Try(read_byte(s), LAMBDA s1 :
    With(ResponseTryFrom(s1.val), LAMBDA r :
        IF r.t # "Ok" THEN [s1 EXCEPT !.err = r] ELSE s1))

read_ack(s) ==
    Try(read_byte(s), LAMBDA s1 :
    With(ResponseTryFrom(s1.val), LAMBDA r :
        IF r.t # "Ok" THEN [s1 EXCEPT !.err = r]
        ELSE IF r.v = "Ack" THEN s1
        ELSE [s1 EXCEPT !.err = Err("Nack", 0)]))

write_command(s, command) ==
    With(<< BootloaderCommand[command], Not8(BootloaderCommand[command]) >>, LAMBDA buf :
    Try(write(s, buf), LAMBDA s1 :
        IF s1.val # 2 THEN [s1 EXCEPT !.err = Err("Io", "WriteZero")]
        ELSE read_ack(s1)))

\* write_with_checksum were its fold seeded with 0xFF
write_with_checksum_seed_ff(s, bytes) ==
    With(XorFold(255, bytes), LAMBDA chksum :
    Try(write(s, bytes), LAMBDA s1 :
    Try(serial_write(s1, << chksum >>), LAMBDA s2 :
        [s2 EXCEPT !.val = s1.val + 1])))

write_with_checksum(s, bytes) ==
    With(XorFold(0, bytes), LAMBDA chksum :
    Try(write(s, bytes), LAMBDA s1 :
    Try(serial_write(s1, << chksum >>), LAMBDA s2 :
        [s2 EXCEPT !.val = s1.val + 1])))

-----------------------------------------------------------------------------
(* impl Builder *)

\* build_serialport has opened the stream the session starts from
Builder_skip_initialization(s) == s

\* Builder::initialize were it to take the response through read_ack
Builder_initialize_reads_ack(s) ==
    Try(serial_write(s, << SYNC_BYTE >>), LAMBDA s1 : read_ack(s1))

Builder_initialize(s) ==
    Try(serial_write(s, << SYNC_BYTE >>), LAMBDA s1 :
        serial_read(s1, 1))

-----------------------------------------------------------------------------
(* impl AN3155: the session operations *)

get_version(s) ==
    Try(write_command(s, "GetVersion"), LAMBDA s1 :
    Try(read_byte(s1), LAMBDA s2 :
    Try(read_exact(s2, 2), LAMBDA s3 :
    Try(read_ack(s3), LAMBDA s4 :
        [s4 EXCEPT !.val = Version_from(s2.val)]))))

get_id(s) ==
    Try(write_command(s, "GetId"), LAMBDA s1 :
    Try(read_byte(s1), LAMBDA s2 :
        IF s2.val # 1 THEN [s2 EXCEPT !.err = Err("InvalidResponse", AsU8(s2.val))]
        ELSE Try(read_exact(s2, 2), LAMBDA s3 :
                [s3 EXCEPT !.val = U16FromBe(s3.val)])))

\* the first byte of buf[1..] that is no command, or 0 when all are
FirstUnknown(buf) ==
    With({i \in 2..Len(buf) : BootloaderCommandTryFrom(buf[i]).t # "Ok"}, LAMBDA bad :
        IF bad = {} THEN 0 ELSE CHOOSE i \in bad : \A j \in bad : i <= j)

\* get_commands were it to read n bytes after the length byte, not n + 1
get_commands_reads_n(s) ==
    Try(write_command(s, "Get"), LAMBDA s1 :
    Try(read_byte(s1), LAMBDA s2 :
    Try(read_exact(s2, s2.val), LAMBDA s3 :
    Try(read_ack(s3), LAMBDA s4 :
    With(FirstUnknown(s3.val), LAMBDA first :
        IF first # 0 THEN [s4 EXCEPT !.err = BootloaderCommandTryFrom(s3.val[first])]
        ELSE [s4 EXCEPT !.val = [i \in 1..(Len(s3.val) - 1) |->
                                    BootloaderCommandTryFrom(s3.val[i + 1]).v]])))))

get_commands(s) ==
    Try(write_command(s, "Get"), LAMBDA s1 :
    Try(read_byte(s1), LAMBDA s2 :
    Try(read_exact(s2, s2.val + 1), LAMBDA s3 :
    Try(read_ack(s3), LAMBDA s4 :
    With(FirstUnknown(s3.val), LAMBDA first :
        IF first # 0 THEN [s4 EXCEPT !.err = BootloaderCommandTryFrom(s3.val[first])]
        ELSE [s4 EXCEPT !.val = [i \in 1..(Len(s3.val) - 1) |->
                                    BootloaderCommandTryFrom(s3.val[i + 1]).v]])))))

Contains(commands, c) == \E i \in 1..Len(commands) : commands[i] = c

\* get_erase_command were it to look for ExtendedErase first
get_erase_command_extended_first(s) ==
    Try(get_commands(s), LAMBDA s1 :
        IF Contains(s1.val, "ExtendedErase") THEN [s1 EXCEPT !.val = "ExtendedErase"]
        ELSE IF Contains(s1.val, "Erase") THEN [s1 EXCEPT !.val = "Erase"]
        ELSE [s1 EXCEPT !.err = Err("Unsupported", 0)])

get_erase_command(s) ==
    Try(get_commands(s), LAMBDA s1 :
        IF Contains(s1.val, "Erase") THEN [s1 EXCEPT !.val = "Erase"]
        ELSE IF Contains(s1.val, "ExtendedErase") THEN [s1 EXCEPT !.val = "ExtendedErase"]
        ELSE [s1 EXCEPT !.err = Err("Unsupported", 0)])

\* standard_erase were its limit one page lower
standard_erase_limit_254(s, pages) ==
    IF pages = << >> THEN s
    ELSE IF Len(pages) >= MAX_ERASE_PAGE_COUNT
    THEN [s EXCEPT !.err = Err("ErasePageCount", Len(pages))]
    ELSE With(AsU8(Len(pages) - 1), LAMBDA n :
         With(XorFold(n, pages), LAMBDA checksum :
         Try(write_command(s, "Erase"), LAMBDA s1 :
         Try(write(s1, << n >>), LAMBDA s2 :
         Try(write(s2, pages), LAMBDA s3 :
         Try(write(s3, << checksum >>), LAMBDA s4 :
             read_ack(serial_flush(s4))))))))

standard_erase(s, pages) ==
    IF pages = << >> THEN s
    ELSE IF Len(pages) > MAX_ERASE_PAGE_COUNT
    THEN [s EXCEPT !.err = Err("ErasePageCount", Len(pages))]
    ELSE With(AsU8(Len(pages) - 1), LAMBDA n :
         With(XorFold(n, pages), LAMBDA checksum :
         Try(write_command(s, "Erase"), LAMBDA s1 :
         Try(write(s1, << n >>), LAMBDA s2 :
         Try(write(s2, pages), LAMBDA s3 :
         Try(write(s3, << checksum >>), LAMBDA s4 :
             read_ack(serial_flush(s4))))))))

\* buf after `buf[..2].copy_from_slice(n)` and the zip of the pages with the
\* 2-byte chunks of buf[2..]; len = buf.len()
ExtendedEraseBuf(n, len, pages) ==
    [i \in 1..len |->
        IF i <= 2 THEN U16ToBe(n)[i]
        ELSE IF (i - 1) \div 2 <= Len(pages)
             THEN U16ToBe(pages[(i - 1) \div 2])[((i - 1) % 2) + 1]
             ELSE 0]

extended_erase(s, pages) ==
    IF pages = << >> THEN s
    ELSE With(AsU16(Len(pages)), LAMBDA n :
         \* 2 * (n + 1) + 1 and 2 * (n + 1), computed in u16
         With(Arith(n + 1, 16), LAMBDA n1 :
         With(Arith(2 * n1.v, 16), LAMBDA n2 :
         With(Arith(n2.v + 1, 16), LAMBDA n3 :
            IF build.overflow_checks /\ (n1.of \/ n2.of \/ n3.of)
            THEN [s EXCEPT !.err = Panic("attempt to add or multiply with overflow")]
            ELSE IF n2.v < 2
            THEN [s EXCEPT !.err = Panic("range end index 2 out of range for slice")]
            ELSE With(ExtendedEraseBuf(n, n2.v, pages), LAMBDA buf :
                 Try(write_command(s, "ExtendedErase"), LAMBDA s1 :
                 Try(write_with_checksum(s1, buf), LAMBDA s2 :
                     read_ack(serial_flush(s2)))))))))

standard_global_erase(s) ==
    Try(write_command(s, "Erase"), LAMBDA s1 :
    Try(write(s1, << 255, 0 >>), LAMBDA s2 :
        read_ack(serial_flush(s2))))

\* the match on bank were Bank2 to take the bytes of Bank1
extended_global_erase_buf_bank2_as_bank1(bank) ==
    IF bank = BankErase.Global THEN << 255, 255, 0 >> ELSE << 255, 254, 1 >>

\* `let buf = match bank { ... }`
extended_global_erase_buf(bank) ==
    CASE bank = BankErase.Global -> << 255, 255, 0 >>
      [] bank = BankErase.Bank1 -> << 255, 254, 1 >>
      [] bank = BankErase.Bank2 -> << 255, 253, 2 >>

extended_global_erase(s, bank) ==
    With(extended_global_erase_buf(bank), LAMBDA buf :
    Try(write_command(s, "ExtendedErase"), LAMBDA s1 :
    Try(write(s1, buf), LAMBDA s2 :
        read_ack(serial_flush(s2)))))

\* write_memory were it to send the data frame without waiting for the ack
\* of the address frame
write_memory_data_before_address_ack(s, address, bytes) ==
    IF bytes = << >> THEN s
    ELSE IF Len(bytes) > MAX_WRITE_BYTES_COUNT
    THEN [s EXCEPT !.err = Err("WriteBytesCount", Len(bytes))]
    ELSE Try(write_command(s, "WriteMemory"), LAMBDA s1 :
         Try(write_with_checksum(s1, U32ToBe(address)), LAMBDA s2 :
         With(Arith(AsU8(Len(bytes)) - 1, 8), LAMBDA n :
            IF build.overflow_checks /\ n.of
            THEN [s2 EXCEPT !.err = Panic("attempt to subtract with overflow")]
            ELSE With(XorFold(n.v, bytes), LAMBDA checksum :
                 Try(write(serial_flush(s2), << n.v >>), LAMBDA s5 :
                 Try(write(s5, bytes), LAMBDA s6 :
                 Try(write(s6, << checksum >>), LAMBDA s7 :
                 Try(read_ack(s7), LAMBDA s8 :
                     read_ack(s8)))))))))

\* write_memory were it to go on with no bytes
write_memory_without_empty_check(s, address, bytes) ==
    IF Len(bytes) > MAX_WRITE_BYTES_COUNT
    THEN [s EXCEPT !.err = Err("WriteBytesCount", Len(bytes))]
    ELSE Try(write_command(s, "WriteMemory"), LAMBDA s1 :
         Try(write_with_checksum(s1, U32ToBe(address)), LAMBDA s2 :
         Try(read_ack(serial_flush(s2)), LAMBDA s4 :
         \* bytes.len() as u8 - 1
         With(Arith(AsU8(Len(bytes)) - 1, 8), LAMBDA n :
            IF build.overflow_checks /\ n.of
            THEN [s4 EXCEPT !.err = Panic("attempt to subtract with overflow")]
            ELSE With(XorFold(n.v, bytes), LAMBDA checksum :
                 Try(write(s4, << n.v >>), LAMBDA s5 :
                 Try(write(s5, bytes), LAMBDA s6 :
                 Try(write(s6, << checksum >>), LAMBDA s7 :
                     read_ack(s7)))))))))

write_memory(s, address, bytes) ==
    IF bytes = << >> THEN s
    ELSE IF Len(bytes) > MAX_WRITE_BYTES_COUNT
    THEN [s EXCEPT !.err = Err("WriteBytesCount", Len(bytes))]
    ELSE Try(write_command(s, "WriteMemory"), LAMBDA s1 :
         Try(write_with_checksum(s1, U32ToBe(address)), LAMBDA s2 :
         Try(read_ack(serial_flush(s2)), LAMBDA s4 :
         \* bytes.len() as u8 - 1
         With(Arith(AsU8(Len(bytes)) - 1, 8), LAMBDA n :
            IF build.overflow_checks /\ n.of
            THEN [s4 EXCEPT !.err = Panic("attempt to subtract with overflow")]
            ELSE With(XorFold(n.v, bytes), LAMBDA checksum :
                 Try(write(s4, << n.v >>), LAMBDA s5 :
                 Try(write(s5, bytes), LAMBDA s6 :
                 Try(write(s6, << checksum >>), LAMBDA s7 :
                     read_ack(s7)))))))))

\* `bytes` is the caller's buffer (dst); the data is read into a local Vec
read_memory(s, address, bytes) ==
    IF bytes = << >> THEN [s EXCEPT !.dst = bytes]
    ELSE IF Len(bytes) > MAX_READ_BYTES_COUNT
    THEN [s EXCEPT !.dst = bytes, !.err = Err("WriteBytesCount", Len(bytes))]
    ELSE Try(write_command([s EXCEPT !.dst = bytes], "WriteMemory"), LAMBDA s1 :
         Try(write_with_checksum(s1, U32ToBe(address)), LAMBDA s2 :
         Try(read_ack(serial_flush(s2)), LAMBDA s4 :
         \* bytes.len() as u8 - 1
         With(Arith(AsU8(Len(bytes)) - 1, 8), LAMBDA n :
         \* buf.len(): (n + 1) as usize, the addition in u8
         With(Arith(n.v + 1, 8), LAMBDA cap :
            IF build.overflow_checks /\ n.of
            THEN [s4 EXCEPT !.err = Panic("attempt to subtract with overflow")]
            ELSE IF build.overflow_checks /\ cap.of
            THEN [s4 EXCEPT !.err = Panic("attempt to add with overflow")]
            ELSE Try(write(s4, << n.v, Not8(n.v) >>), LAMBDA s5 :
                 Try(read_exact(serial_flush(s5), cap.v), LAMBDA s7 :
                     read_ack(s7))))))))

-----------------------------------------------------------------------------
(* The orchestrators: erase and flash *)

Call(name, address, data, s) ==
    [name |-> name, addr |-> address, data |-> data, dst |-> s.dst, ret |-> s.err]

\* the session after a call, with the call noted
Called(name, address, data, s) ==
    [s EXCEPT !.calls = Append(@, Call(name, address, data, s))]

\* 2^32 / DEFAULT_PAGE_SIZE: the page a wrapped u32 offset counts down from
WrappedPages == 33554432

\* pages_to_erase were its start page rounded up
pages_to_erase_start_rounded_up(address, bytes) ==
    [of |-> address < DEFAULT_START_ADDRESS,
     start_page |-> (address - DEFAULT_START_ADDRESS + DEFAULT_PAGE_SIZE - 1)
                        \div DEFAULT_PAGE_SIZE,
     num_pages |-> (bytes + DEFAULT_PAGE_SIZE - 1) \div DEFAULT_PAGE_SIZE]

\* `let pages_to_erase: Vec<u32> = { ... }`: the first page and the number of
\* pages of start_page..start_page + num_pages.  address - base is a u32
\* subtraction: below the base it overflows (of), and the offset a build
\* without overflow checks goes on with is 2^32 - (base - address).
\* (x as f64 / 128.0).ceil() as u32 is exact for a u32 x.
pages_to_erase(address, bytes) ==
    [of |-> address < DEFAULT_START_ADDRESS,
     start_page |->
        IF address >= DEFAULT_START_ADDRESS
        THEN (address - DEFAULT_START_ADDRESS) \div DEFAULT_PAGE_SIZE
        ELSE WrappedPages
             - ((DEFAULT_START_ADDRESS - address + DEFAULT_PAGE_SIZE - 1)
                    \div DEFAULT_PAGE_SIZE),
     num_pages |-> (bytes + DEFAULT_PAGE_SIZE - 1) \div DEFAULT_PAGE_SIZE]

\* (start_page..start_page + num_pages).collect()
Collect(p) == [i \in 1..p.num_pages |-> p.start_page + i - 1]

\* the loop over the chunks were it to end after the first chunk
standard_erase_first_chunk(s, pages, index) ==
    IF pages = << >> THEN s
    ELSE Called("standard_erase", 0, SubSeq(pages, 1, Min(MAX_ERASE_PAGE_COUNT, Len(pages))),
                standard_erase(s, SubSeq(pages, 1, Min(MAX_ERASE_PAGE_COUNT, Len(pages)))))

\* `for chunk in pages_to_erase.chunks(MAX_ERASE_PAGE_COUNT)`: the round for
\* chunk `index` and the rounds after it
RECURSIVE standard_erase_chunks(_, _, _)
standard_erase_chunks(s, pages, index) ==
    IF index * MAX_ERASE_PAGE_COUNT >= Len(pages) THEN s
    ELSE With(SubSeq(pages, index * MAX_ERASE_PAGE_COUNT + 1,
                     Min((index + 1) * MAX_ERASE_PAGE_COUNT, Len(pages))), LAMBDA chunk :
         Try(Called("standard_erase", 0, chunk, standard_erase(s, chunk)), LAMBDA s1 :
             standard_erase_chunks(s1, pages, index + 1)))

\* the match were its Erase arm to convert the pages without the range check
erase_pages_without_u8_check(s, pages) ==
    Try(Called("get_erase_command", 0, << >>, get_erase_command(s)), LAMBDA s1 :
        IF s1.val = "Erase"
        THEN standard_erase_chunks(s1, [i \in 1..Len(pages) |-> AsU8(pages[i])], 0)
        ELSE IF \E i \in 1..Len(pages) : pages[i] > 65535
             THEN [s1 EXCEPT !.err = Panic("Invalid page number")]
             ELSE Called("extended_erase", 0, [i \in 1..Len(pages) |-> AsU16(pages[i])],
                         extended_erase(s1, [i \in 1..Len(pages) |-> AsU16(pages[i])])))

\* `match an3155.get_erase_command()? { ... }`
erase_pages(s, pages) ==
    Try(Called("get_erase_command", 0, << >>, get_erase_command(s)), LAMBDA s1 :
        IF s1.val = "Erase"
        THEN IF \E i \in 1..Len(pages) : pages[i] > 255
             THEN [s1 EXCEPT !.err = Panic("Invalid page number")]
             ELSE standard_erase_chunks(s1, [i \in 1..Len(pages) |-> AsU8(pages[i])], 0)
        ELSE IF \E i \in 1..Len(pages) : pages[i] > 65535
             THEN [s1 EXCEPT !.err = Panic("Invalid page number")]
             ELSE Called("extended_erase", 0, [i \in 1..Len(pages) |-> AsU16(pages[i])],
                         extended_erase(s1, [i \in 1..Len(pages) |-> AsU16(pages[i])])))

\* the orchestrator after the planner gave p
erase_planned(s, p) ==
    IF build.overflow_checks /\ p.of
    THEN [s EXCEPT !.err = Panic("attempt to subtract with overflow")]
    ELSE With([s EXCEPT !.plan = Collect(p)], LAMBDA s0 :
            IF Len(s0.plan) = 0 THEN s0 ELSE erase_pages(s0, s0.plan))

erase(s, address, bytes) == erase_planned(s, pages_to_erase(address, bytes))

Zeros(n) == [i \in 1..n |-> 0]

\* index of the first byte where chunk and buf differ, -1 when they agree
FirstDifference(chunk, buf) ==
    With({i \in 1..Min(Len(chunk), Len(buf)) : chunk[i] # buf[i]}, LAMBDA differ :
        IF differ = {} THEN -1 ELSE (CHOOSE i \in differ : \A j \in differ : i <= j) - 1)

\* `for (index, chunk) in bytes.chunks(256).enumerate()`: the round for
\* chunk `index` and the rounds after it
RECURSIVE flash_chunks(_, _, _, _, _)
flash_chunks(s, address, bytes, skip_verification, index) ==
    IF index * MAX_WRITE_BYTES_COUNT >= Len(bytes) THEN s
    ELSE With(SubSeq(bytes, index * MAX_WRITE_BYTES_COUNT + 1,
                     Min((index + 1) * MAX_WRITE_BYTES_COUNT, Len(bytes))), LAMBDA chunk :
         With(address + index * MAX_WRITE_BYTES_COUNT, LAMBDA addr :
         Try(Called("write_memory", addr, chunk, write_memory(s, addr, chunk)), LAMBDA s1 :
            IF skip_verification
            THEN flash_chunks(s1, address, bytes, skip_verification, index + 1)
            ELSE Try(Called("read_memory", addr, chunk,
                            read_memory(s1, addr, Zeros(Len(chunk)))), LAMBDA s2 :
                 With(FirstDifference(chunk, s2.dst), LAMBDA byte :
                    IF byte # -1 THEN [s2 EXCEPT !.err = VerificationFailed(byte)]
                    ELSE flash_chunks(s2, address, bytes, skip_verification, index + 1))))))

\* flash were its first chunk left out
flash_from_second_chunk(s, address, bytes, skip_verification) ==
    flash_chunks(s, address, bytes, skip_verification, 1)

flash(s, address, bytes, skip_verification) ==
    flash_chunks(s, address, bytes, skip_verification, 0)

-----------------------------------------------------------------------------
(* The Flash arm of the two command-line programs *)

\* the arm up to the write loop: the address check, the planner for the
\* file's size and `match an3155.get_erase_command()? { ... }`, which here
\* runs for an empty plan too.  The check leaves the planner no address below
\* the base.
main_erase(s, address, size) ==
    IF address < DEFAULT_START_ADDRESS
    THEN [s EXCEPT !.err = Panic("Invalid starting address")]
    ELSE With([s EXCEPT !.plan = Collect(pages_to_erase(address, size))], LAMBDA s0 :
            erase_pages(s0, s0.plan))

\* src/stm32_an3155/src/main.rs: erase, then write and read back chunk by chunk
main_flash(s, address, bytes, skip_verification) ==
    Try(main_erase(s, address, Len(bytes)), LAMBDA s1 :
        flash_chunks(s1, address, bytes, skip_verification, 0))

\* `for (index, chunk) in bytes.chunks(MAX_WRITE_BYTES_COUNT).enumerate()`
\* of src/stm32-an3155-bin/src/main.rs: the round for chunk `index` and the
\* rounds after it
RECURSIVE bin_write_chunks(_, _, _, _)
bin_write_chunks(s, address, bytes, index) ==
    IF index * MAX_WRITE_BYTES_COUNT >= Len(bytes) THEN s
    ELSE With(SubSeq(bytes, index * MAX_WRITE_BYTES_COUNT + 1,
                     Min((index + 1) * MAX_WRITE_BYTES_COUNT, Len(bytes))), LAMBDA chunk :
         With(address + index * MAX_WRITE_BYTES_COUNT, LAMBDA addr :
         Try(Called("write_memory", addr, chunk, write_memory(s, addr, chunk)), LAMBDA s1 :
             bin_write_chunks(s1, address, bytes, index + 1))))

\* `for (index, chunk) in buf.chunks_mut(MAX_READ_BYTES_COUNT).enumerate()`:
\* the round for chunk `index` of buf and the rounds after it; the session
\* it ends with holds buf in dst
RECURSIVE bin_read_chunks(_, _, _, _)
bin_read_chunks(s, address, buf, index) ==
    IF index * MAX_READ_BYTES_COUNT >= Len(buf) THEN [s EXCEPT !.dst = buf]
    ELSE With(SubSeq(buf, index * MAX_READ_BYTES_COUNT + 1,
                     Min((index + 1) * MAX_READ_BYTES_COUNT, Len(buf))), LAMBDA chunk :
         With(address + index * MAX_WRITE_BYTES_COUNT, LAMBDA addr :
         Try(Called("read_memory", addr, chunk, read_memory(s, addr, chunk)), LAMBDA s1 :
             bin_read_chunks(s1, address,
                             SubSeq(buf, 1, index * MAX_READ_BYTES_COUNT)
                                 \o s1.dst
                                 \o SubSeq(buf, index * MAX_READ_BYTES_COUNT + Len(chunk) + 1,
                                           Len(buf)),
                             index + 1))))

\* src/stm32-an3155-bin/src/main.rs: erase, write every chunk, read the whole
\* image back into buf, then compare
bin_main_flash(s, address, bytes) ==
    Try(main_erase(s, address, Len(bytes)), LAMBDA s1 :
    Try(bin_write_chunks(s1, address, bytes, 0), LAMBDA s2 :
    Try(bin_read_chunks(s2, address, Zeros(Len(bytes)), 0), LAMBDA s3 :
    With(FirstDifference(bytes, s3.dst), LAMBDA byte :
        IF byte # -1 THEN [s3 EXCEPT !.err = VerificationFailed(byte)] ELSE s3))))

-----
(* Inputs *)

\* the bytes seed+1, seed+2, ... (mod 256)
Pattern(len, seed) == [i \in 1..len |-> (seed + i) % 256]

\* the pages first, first+1, ...
PageRange(first, count) == [i \in 1..count |-> first + i - 1]

\* Boundary inputs are run against test doubles, where every call starts a
\* new session; the sessions against the device, where calls follow one
\* another, use typical inputs.
Addresses == {DEFAULT_START_ADDRESS, DEFAULT_START_ADDRESS + 256}

WriteInputs ==
    IF env = "double"
    THEN {Pattern(len, 16) : len \in {0, 1, 2, 256, 257}} \cup {<< 0, 0 >>, << 165 >>}
    ELSE {<< 165 >>, Pattern(256, 16)}

\* destination buffers handed to read_memory
ReadInputs ==
    IF env = "double"
    THEN {Zeros(len) : len \in {0, 1, 2, 256, 257}} \cup {<< 238, 238 >>}
    ELSE {Zeros(1), << 238, 238 >>}

StandardPageInputs ==
    IF env = "double"
    THEN {<< >>, << 5 >>, << 1, 2 >>, << 3, 200, 7 >>, PageRange(0, 255), PageRange(0, 256)}
    ELSE {<< 5 >>, << 1, 2 >>}

\* the erase planner hands over up to 65536 pages
ExtendedPageInputs ==
    IF env = "double"
    THEN {<< >>, << 5 >>, << 258, 3 >>, << 65535, 0, 256 >>,
          PageRange(0, 32767), PageRange(0, 65536)}
    ELSE {<< 5 >>, << 258, 3 >>}

\* byte sequences handed to write_with_checksum: the empty one, every single
\* byte, pairs of bytes with few and with many bits set, addresses, buffers
ByteSamples == {0, 1, 85, 127, 128, 170, 255}
ChecksumInputs ==
    {<< >>} \cup {<< a >> : a \in 0..255}
    \cup {<< a, b >> : a, b \in ByteSamples}
    \cup {U32ToBe(a) : a \in Addresses}
    \cup {Pattern(len, seed) : len \in {3, 256}, seed \in {0, 77}}

\* (address, byte count) handed to erase: aligned and not, at the first page
\* and at the last page a standard erase can name
EraseInputs ==
    {<< a, n >> : a \in {DEFAULT_START_ADDRESS, DEFAULT_START_ADDRESS + 200,
                         DEFAULT_START_ADDRESS + 255 * DEFAULT_PAGE_SIZE},
                  n \in {0, 1, 128, 300}}
    \cup {<< DEFAULT_START_ADDRESS, 256 * DEFAULT_PAGE_SIZE >>,
          << DEFAULT_START_ADDRESS - 1, DEFAULT_PAGE_SIZE >>,
          << DEFAULT_START_ADDRESS - 1, 0 >>}

Images == {<< >>, Zeros(2), Pattern(256, 0), Pattern(300, 0)}

\* the addresses given on the command line: the base, the page after the
\* first 256 bytes, and an address below the base
MainAddresses ==
    {DEFAULT_START_ADDRESS, DEFAULT_START_ADDRESS + 256, DEFAULT_START_ADDRESS - 1}

-----------------------------------------------------------------------------
(* Scripted answers of a test double: the answer the wire-format table     *)
(* gives for an exchange, that answer with one byte replaced, and that     *)
(* answer cut short.                                                       *)

FaultBytes == {Response.Nack, 85}

FaultPositions(script) ==
    (1..Min(Len(script), MaxFaultPos)) \cup (IF script = << >> THEN {} ELSE {Len(script)})

ScriptsOf(a) ==
    {a}
    \cup {[a EXCEPT ![k] = b] : k \in FaultPositions(a), b \in FaultBytes}
    \cup {SubSeq(a, 1, k) : k \in 0..Min(Len(a) - 1, MaxFaultPos)}

Scripts(answers) == UNION {ScriptsOf(a) : a \in answers}

AnswersGetVersion == {<< 121, v, 0, 0, 121 >> : v \in {16, 49}}
AnswersGetId == {<< 121, 1, 4, 16, 121 >>}
\* the command bytes a bootloader may list
CommandBytes == << 0, 1, 2, 17, 33, 49, 67, 68, 80, 81, 99, 115, 130, 146, 161 >>
\* the longest list a length byte can announce
LongCommandList == [i \in 1..255 |-> CommandBytes[((i - 1) % Len(CommandBytes)) + 1]]
AnswersGet ==
    {<< 121, Len(c), 49 >> \o c \o << 121 >> :
        c \in {<< >>, << 0, 1, 2, 67 >>, << 0, 68, 17 >>, << 68, 67 >>, << 67, 68 >>,
               << 0, 1 >>, << 0, 3, 67 >>, LongCommandList}}
AnswersErase == {<< 121, 121 >>}
AnswersWrite == {<< 121, 121, 121 >>}
AnswersRead(len) == {<< 121, 121 >> \o Pattern(Min(len, 256), 160) \o << 121 >>}
\* the answers to erase of a bootloader that lists Erase: those to
\* get_erase_command and those to the standard_erase of every chunk of pages
RECURSIVE AnswersEraseChunks(_)
AnswersEraseChunks(pages) ==
    IF pages <= 0 THEN << >>
    ELSE (CHOOSE a \in AnswersErase : TRUE) \o AnswersEraseChunks(pages - MAX_ERASE_PAGE_COUNT)
AnswersEraseRun(bytes) ==
    IF bytes = 0 THEN {<< >>}
    ELSE {<< 121, 2, 49, 0, 67, 121 >>
            \o AnswersEraseChunks((bytes + DEFAULT_PAGE_SIZE - 1) \div DEFAULT_PAGE_SIZE)}

\* the answers to flash: for every chunk those to its write_memory and, with
\* verification, those to its read_memory
RECURSIVE AnswersFlashFrom(_, _, _)
AnswersFlashFrom(bytes, skip_verification, index) ==
    IF index * MAX_WRITE_BYTES_COUNT >= Len(bytes) THEN << >>
    ELSE (CHOOSE a \in AnswersWrite : TRUE)
         \o (IF skip_verification THEN << >>
             ELSE CHOOSE a \in AnswersRead(Min(MAX_WRITE_BYTES_COUNT,
                                               Len(bytes) - index * MAX_WRITE_BYTES_COUNT)) :
                     TRUE)
         \o AnswersFlashFrom(bytes, skip_verification, index + 1)
AnswersFlash(bytes, skip_verification) == {AnswersFlashFrom(bytes, skip_verification, 0)}

-----------------------------------------------------------------------------
(* The state machine: a session is built over a stream and its operations  *)
(* are called one after the other.  Against the device the stream carries  *)
(* over from one call to the next; a test double is scripted anew for      *)
(* every call.                                                             *)

\* op: the method, its address argument, its slice argument, erase's byte
\* count, flash's skip_verification, and the script the test double was given
NoOp ==
    [name |-> "new", addr |-> 0, arg |-> << >>, size |-> 0, skip |-> FALSE,
     script |-> << >>]

Init ==
    /\ build \in [overflow_checks : BOOLEAN]
    /\ \/ env = "device" /\ \E c \in {DevCommandsStd, DevCommandsExt} :
                                serial = [rx |-> << >>, dev |-> DevInit(c)]
       \/ env = "double" /\ serial = [rx |-> << >>, dev |-> DevInit(DevCommandsStd)]
    /\ io = << >>
    /\ op = NoOp
    /\ ret = Ok
    /\ dest = << >>
    /\ calls = << >>
    /\ plan = << >>
    /\ nops = 0

\* a session against the device runs up to MaxOps calls; a test double is
\* scripted for one call
CanCall == nops < MaxOps /\ (env = "double" => nops = 0)

\* the scripts a call may be run against
ScriptChoice(answers) == IF env = "double" THEN Scripts(answers) ELSE {<< >>}

\* the session record an operation starts from
Begin(script) ==
    [rx |-> IF env = "double" THEN script ELSE serial.rx,
     dev |-> serial.dev, io |-> << >>, val |-> 0, err |-> Ok,
     dst |-> << >>, calls |-> << >>, plan |-> << >>]

\* the operation has returned: r is the session record it ended with
Finish(call, unit, r) ==
    /\ serial' = [rx |-> r.rx, dev |-> r.dev]
    /\ io' = r.io
    /\ op' = call
    /\ ret' = IF Failed(r) THEN r.err
              ELSE [t |-> "Ok", v |-> IF unit THEN 0 ELSE r.val]
    /\ dest' = r.dst
    /\ calls' = r.calls
    /\ plan' = r.plan
    /\ nops' = nops + 1
    /\ UNCHANGED <<build, env>>

GetVersion ==
    /\ CanCall
    /\ \E script \in ScriptChoice(AnswersGetVersion) :
         Finish([NoOp EXCEPT !.name = "get_version", !.script = script], FALSE, get_version(Begin(script)))

GetId ==
    /\ CanCall
    /\ \E script \in ScriptChoice(AnswersGetId) :
         Finish([NoOp EXCEPT !.name = "get_id", !.script = script], FALSE, get_id(Begin(script)))

GetCommands ==
    /\ CanCall
    /\ \E script \in ScriptChoice(AnswersGet) :
         Finish([NoOp EXCEPT !.name = "get_commands", !.script = script], FALSE, get_commands(Begin(script)))

GetEraseCommand ==
    /\ CanCall
    /\ \E script \in ScriptChoice(AnswersGet) :
         Finish([NoOp EXCEPT !.name = "get_erase_command", !.script = script], FALSE,
                get_erase_command(Begin(script)))

StandardGlobalErase ==
    /\ CanCall
    /\ \E script \in ScriptChoice(AnswersErase) :
         Finish([NoOp EXCEPT !.name = "standard_global_erase", !.script = script], TRUE,
                standard_global_erase(Begin(script)))

\* op.arg holds the bank
ExtendedGlobalErase ==
    /\ CanCall
    /\ \E bank \in {BankErase.Global, BankErase.Bank1, BankErase.Bank2},
          script \in ScriptChoice(AnswersErase) :
         Finish([NoOp EXCEPT !.name = "extended_global_erase", !.arg = << bank >>,
                              !.script = script], TRUE,
                extended_global_erase(Begin(script), bank))

StandardErase ==
    /\ CanCall
    /\ \E pages \in StandardPageInputs, script \in ScriptChoice(AnswersErase) :
         Finish([NoOp EXCEPT !.name = "standard_erase", !.arg = pages,
                              !.script = script], TRUE,
                standard_erase(Begin(script), pages))

ExtendedErase ==
    /\ CanCall
    /\ \E pages \in ExtendedPageInputs, script \in ScriptChoice(AnswersErase) :
         Finish([NoOp EXCEPT !.name = "extended_erase", !.arg = pages,
                              !.script = script], TRUE,
                extended_erase(Begin(script), pages))

WriteMemory ==
    /\ CanCall
    /\ \E address \in Addresses, bytes \in WriteInputs, script \in ScriptChoice(AnswersWrite) :
         Finish([NoOp EXCEPT !.name = "write_memory", !.addr = address, !.arg = bytes,
                              !.script = script], TRUE,
                write_memory(Begin(script), address, bytes))

ReadMemory ==
    /\ CanCall
    /\ \E address \in Addresses, bytes \in ReadInputs :
         \E script \in ScriptChoice(AnswersRead(Len(bytes))) :
            Finish([NoOp EXCEPT !.name = "read_memory", !.addr = address, !.arg = bytes,
                                 !.script = script], TRUE,
                   read_memory(Begin(script), address, bytes))

\* the Result r of a function that does no I/O, as the record an operation
\* ends with
Returns(r) ==
    IF r.t = "Ok" THEN [Begin(<< >>) EXCEPT !.val = r.v] ELSE [Begin(<< >>) EXCEPT !.err = r]

\* BootloaderCommand::try_from on any byte
TryFromCommand ==
    /\ CanCall
    /\ env = "double"
    /\ \E v \in 0..255 :
         Finish([NoOp EXCEPT !.name = "BootloaderCommand::try_from", !.arg = << v >>], FALSE,
                Returns(BootloaderCommandTryFrom(v)))

\* Version::from(v).value() on any byte
VersionValue ==
    /\ CanCall
    /\ env = "double"
    /\ \E v \in 0..255 :
         Finish([NoOp EXCEPT !.name = "Version::value", !.arg = << v >>], FALSE,
                Returns([t |-> "Ok", v |-> Version_value(Version_from(v))]))

\* write_with_checksum on a stream that accepts every byte
WriteWithChecksum ==
    /\ CanCall
    /\ env = "double"
    /\ \E bytes \in ChecksumInputs :
         Finish([NoOp EXCEPT !.name = "write_with_checksum", !.arg = bytes], FALSE,
                write_with_checksum(Begin(<< >>), bytes))

\* read_ack on a stream that holds any byte, and an Ack after it
ReadAck ==
    /\ CanCall
    /\ env = "double"
    /\ \E b \in 0..255 :
         Finish([NoOp EXCEPT !.name = "read_ack", !.script = << b, Response.Ack >>], TRUE,
                read_ack(Begin(<< b, Response.Ack >>)))

Erase ==
    /\ CanCall
    /\ \E input \in EraseInputs :
       \E script \in ScriptChoice(AnswersEraseRun(input[2])) :
         Finish([NoOp EXCEPT !.name = "erase", !.addr = input[1], !.size = input[2],
                              !.script = script], TRUE,
                erase(Begin(script), input[1], input[2]))

Flash ==
    /\ CanCall
    /\ \E address \in {DEFAULT_START_ADDRESS}, bytes \in Images, skip_verification \in BOOLEAN :
       \E script \in ScriptChoice(AnswersFlash(bytes, skip_verification)) :
         Finish([NoOp EXCEPT !.name = "flash", !.addr = address, !.arg = bytes,
                              !.skip = skip_verification, !.script = script], TRUE,
                flash(Begin(script), address, bytes, skip_verification))

\* the responses a stream may hold when the session is built: nothing, any
\* one byte, and a byte with more behind it
InitializeScripts ==
    {<< >>} \cup {<< b >> : b \in 0..255}
            \cup {<< b, Response.Ack >> : b \in {Response.Ack, Response.Nack, 85}}

Initialize ==
    /\ CanCall
    /\ env = "double"
    /\ \E script \in InitializeScripts :
         Finish([NoOp EXCEPT !.name = "initialize", !.script = script], TRUE,
                Builder_initialize(Begin(script)))

SkipInitialization ==
    /\ CanCall
    /\ env = "double"
    /\ \E script \in {<< >>, << Response.Ack >>} :
         Finish([NoOp EXCEPT !.name = "skip_initialization", !.script = script], TRUE,
                Builder_skip_initialization(Begin(script)))

\* one run of stm32_an3155's program with the Flash command: a new session,
\* the arm, exit
MainFlash ==
    /\ CanCall
    /\ env = "device"
    /\ nops = 0
    /\ \E address \in MainAddresses, bytes \in Images, skip_verification \in BOOLEAN :
         Finish([NoOp EXCEPT !.name = "main_flash", !.addr = address, !.arg = bytes,
                              !.skip = skip_verification], TRUE,
                main_flash(Begin(<< >>), address, bytes, skip_verification))

\* one run of stm32-an3155-bin's program with the Flash command; it has no
\* option to skip the verification
BinMainFlash ==
    /\ CanCall
    /\ env = "device"
    /\ nops = 0
    /\ \E address \in MainAddresses, bytes \in Images :
         Finish([NoOp EXCEPT !.name = "bin_main_flash", !.addr = address, !.arg = bytes], TRUE,
                bin_main_flash(Begin(<< >>), address, bytes))

Next ==
    \/ StandardGlobalErase
    \/ ExtendedGlobalErase
    \/ Initialize
    \/ SkipInitialization
    \/ MainFlash
    \/ BinMainFlash
    \/ GetVersion
    \/ GetId
    \/ GetCommands
    \/ GetEraseCommand
    \/ StandardErase
    \/ ExtendedErase
    \/ WriteMemory
    \/ ReadMemory
    \/ Erase
    \/ Flash
    \/ ReadAck
    \/ TryFromCommand
    \/ WriteWithChecksum
    \/ VersionValue

Spec == Init /\ [][Next]_vars

-----------------------------------------------------------------------------
(* What the last operation did on the stream *)

\* the stream calls of one kind ("w", "r", "f") made by the last operation
CallsOf(kind) == SelectSeq(io, LAMBDA e : e.k = kind)

RECURSIVE Flatten(_)
Flatten(events) ==
    IF events = << >> THEN << >> ELSE Head(events).b \o Flatten(Tail(events))

\* all bytes the last operation wrote, in order
Written == Flatten(CallsOf("w"))

\* the writes and reads of the last operation, in order, flushes left out
Traffic == SelectSeq(io, LAMBDA e : e.k # "f")

\* the kind and the size of every write and read
Shape == [i \in 1..Len(Traffic) |-> << Traffic[i].k, Len(Traffic[i].b) >>]

\* the bytes written after the first `skip` bytes
WrittenAfter(skip) == SubSeq(Written, skip + 1, Len(Written))

\* the other end answers the last operation as the wire-format table
\* prescribes: a double scripted with the unaltered answer, or the
\* bootloader, in step, supporting the command
Prescribed(answers, command) ==
    IF env = "double" THEN op.script \in answers
    ELSE nops = 1 /\ DevSupports(serial.dev, BootloaderCommand[command])

SessionOps ==
    {"get_version", "get_id", "get_commands", "get_erase_command",
     "standard_erase", "extended_erase", "write_memory", "read_memory"}

-----------------------------------------------------------------------------
(* Properties *)

\* C1: lock-step.  Whenever a session operation run against the bootloader
\* returns successfully, every byte the bootloader sent has been consumed:
\* nothing is left in the stream for the next operation to read.
C1_LockStep ==
    (env = "device" /\ op.name \in SessionOps /\ ret.t = "Ok") => serial.rx = << >>

\* C2: after a successful read_memory on a destination of 1..256 bytes, the
\* destination holds the data bytes that were read between the frame-2
\* request and the trailing ack.
C2_ReadMemoryFillsDestination ==
    (op.name = "read_memory" /\ ret.t = "Ok" /\ Len(op.arg) \in 1..MAX_READ_BYTES_COUNT) =>
        /\ Len(CallsOf("r")) = 4
        /\ Len(dest) = Len(op.arg)
        /\ dest = CallsOf("r")[3].b

\* C3: flash with verification, run against a bootloader that stores every
\* write, returns what it stored and acks every request, succeeds, and every
\* read_memory it makes returns the chunk that was written.
C3_FlashWithVerification ==
    (env = "device" /\ nops = 1 /\ op.name = "flash" /\ ~op.skip) =>
        /\ ret.t = "Ok"
        /\ \A i \in 1..Len(calls) :
              calls[i].name = "read_memory" => calls[i].dst = calls[i].data

\* C4: the first thing read_memory writes is the ReadMemory header
\* [0x11, 0xEE], and it never writes the WriteMemory header [0x31, 0xCE].
C4_ReadMemoryHeader ==
    (op.name = "read_memory" /\ io # << >>) =>
        /\ io[1] = Event("w", << 17, 238 >>)
        /\ \A i \in 1..Len(io) : io[i] # Event("w", << 49, 206 >>)

\* C5: write_memory of 257 bytes fails with WriteBytesCount(257) and writes
\* nothing; write_memory of 256 bytes, every frame acked, succeeds and sends,
\* after the header and the address frame, one data frame: 0xFF, the 256
\* bytes, one checksum byte.
C5_WriteMemoryBoundary ==
    op.name = "write_memory" =>
        /\ Len(op.arg) = MAX_WRITE_BYTES_COUNT + 1 =>
              ret.t = "WriteBytesCount" /\ ret.v = MAX_WRITE_BYTES_COUNT + 1 /\ io = << >>
        /\ (Len(op.arg) = MAX_WRITE_BYTES_COUNT /\ Prescribed(AnswersWrite, "WriteMemory")) =>
              /\ ret.t = "Ok"
              /\ Len(Written) = 2 + 5 + 1 + MAX_WRITE_BYTES_COUNT + 1
              /\ Written[8] = 255
              /\ SubSeq(Written, 9, 8 + MAX_WRITE_BYTES_COUNT) = op.arg

\* C6: read_memory on a destination of more than 256 bytes fails and writes
\* nothing; on a destination of 256 bytes, every frame acked, it succeeds,
\* sends the request [0xFF, 0x00], then reads 256 data bytes, then one ack.
C6_ReadMemoryBoundary ==
    op.name = "read_memory" =>
        /\ Len(op.arg) > MAX_READ_BYTES_COUNT => ret.t # "Ok" /\ io = << >>
        /\ (Len(op.arg) = MAX_READ_BYTES_COUNT
            /\ Prescribed(AnswersRead(MAX_READ_BYTES_COUNT), "ReadMemory")) =>
              /\ ret.t = "Ok"
              /\ WrittenAfter(2 + 5) = << 255, 0 >>
              /\ Len(Shape) >= 2
              /\ Shape[Len(Shape) - 1] = << "r", MAX_READ_BYTES_COUNT >>
              /\ Shape[Len(Shape)] = << "r", 1 >>

C8_ExtendedEraseAnyLength ==
    (op.name = "extended_erase" /\ op.arg # << >>
     /\ Prescribed(AnswersErase, "ExtendedErase")) =>
        /\ ~IsPanic(ret)
        /\ ret.t = "Ok"
        /\ Len(WrittenAfter(2)) = 2 + 2 * Len(op.arg) + 1
        /\ Len(op.arg) < 65536
        /\ SubSeq(WrittenAfter(2), 1, 2) = U16ToBe(Len(op.arg))
        /\ \A i \in 1..Len(op.arg) :
              SubSeq(WrittenAfter(2), 2 * i + 1, 2 * i + 2) = U16ToBe(op.arg[i])
        /\ XorFold(0, WrittenAfter(2)) = 0

\* C9: get_version writes the GetVersion header first.  When it succeeds it
\* has read, in this order, an ack, 1 version byte, 2 reserved bytes and the
\* trailing ack, and returns the version byte.  A Nack where an ack is
\* expected fails the call with Nack, any byte other than 0x79 and 0x1F there
\* fails it with InvalidResponse(byte), and nothing is read after it.
C9_GetVersion ==
    op.name = "get_version" =>
        /\ io # << >> /\ io[1] = Event("w", << 1, 254 >>)
        /\ \A i \in 2..Len(io) : io[i].k = "r"
        /\ ret.t = "Ok" =>
              /\ Shape = << << "w", 2 >>, << "r", 1 >>, << "r", 1 >>, << "r", 2 >>, << "r", 1 >> >>
              /\ io[2].b = << Response.Ack >>
              /\ io[5].b = << Response.Ack >>
              /\ ret.v = io[3].b[1]
        /\ \A i \in {2, 5} : (Len(io) >= i /\ Len(io[i].b) = 1) =>
              /\ io[i].b[1] = Response.Nack => ret.t = "Nack" /\ Len(io) = i
              /\ io[i].b[1] \notin {Response.Ack, Response.Nack} =>
                    ret.t = "InvalidResponse" /\ ret.v = io[i].b[1] /\ Len(io) = i

\* get_version has failed with Nack at the trailing ack, after the version
\* byte and the reserved bytes were read
C9_Witness ==
    /\ op.name = "get_version"
    /\ Len(io) = 5
    /\ io[2].b = << Response.Ack >>
    /\ io[5].b = << Response.Nack >>
    /\ ret.t = "Nack"

\* C10: a successful get_id has written the GetId header and read an ack,
\* the length prefix 1, the 2 product-id bytes and the trailing ack, and
\* returns the big-endian product id; a prefix other than 1 fails the call
\* with InvalidResponse(prefix).
C10_GetId ==
    op.name = "get_id" =>
        /\ ret.t = "Ok" =>
              /\ Shape = << << "w", 2 >>, << "r", 1 >>, << "r", 1 >>, << "r", 2 >>, << "r", 1 >> >>
              /\ io[1].b = << 2, 253 >>
              /\ io[2].b = << Response.Ack >>
              /\ io[3].b = << 1 >>
              /\ io[5].b = << Response.Ack >>
              /\ ret.v = io[4].b[1] * 256 + io[4].b[2]
        /\ (Len(io) >= 3 /\ io[2].b = << Response.Ack >> /\ Len(io[3].b) = 1 /\ io[3].b # << 1 >>) =>
              ret.t = "InvalidResponse" /\ ret.v = io[3].b[1]

\* the 15 byte values that are commands
CommandValues == {0, 1, 2, 17, 33, 49, 67, 68, 80, 81, 99, 115, 130, 146, 161}

\* C11: get_commands writes the Get header; after the ack it reads a length
\* byte n, then n+1 bytes, then the trailing ack.  When it succeeds the result
\* has exactly n commands, the bytes after the version byte decoded in wire
\* order.  When the exchange is complete and acked, it succeeds if every one
\* of the n bytes is a command value and fails with InvalidBootloaderCommand
\* of an unknown byte otherwise.
C11_GetCommands ==
    op.name = "get_commands" =>
        /\ io # << >> /\ io[1] = Event("w", << 0, 255 >>)
        /\ \A i \in 2..Len(io) : io[i].k = "r"
        /\ Len(io) <= 5
        /\ (Len(io) >= 4 /\ (Len(io) > 4 \/ ret.t # "Io")) =>
              /\ Len(io[3].b) = 1
              /\ Len(io[4].b) = io[3].b[1] + 1
        /\ ret.t = "Ok" =>
              /\ Len(io) = 5
              /\ io[2].b = << Response.Ack >>
              /\ io[5].b = << Response.Ack >>
              /\ Len(ret.v) = io[3].b[1]
              /\ \A i \in 1..Len(ret.v) : BootloaderCommand[ret.v[i]] = io[4].b[i + 1]
        /\ (Len(io) = 5 /\ io[5].b = << Response.Ack >>) =>
              IF \A i \in 2..Len(io[4].b) : io[4].b[i] \in CommandValues
              THEN ret.t = "Ok"
              ELSE /\ ret.t = "InvalidBootloaderCommand"
                   /\ ret.v \notin CommandValues
                   /\ \E i \in 2..Len(io[4].b) : io[4].b[i] = ret.v

\* get_commands has returned a list of 255 commands
C11_Witness ==
    op.name = "get_commands" /\ ret.t = "Ok" /\ Len(ret.v) = 255

\* the command bytes of a complete Get answer, as a set: the order is gone
ListedBytes == {io[4].b[i] : i \in 2..Len(io[4].b)}

\* the Get exchange of the last operation was complete, acked, and listed
\* command values only
GetExchangeSucceeded ==
    Len(io) = 5 /\ io[5].b = << Response.Ack >> /\ ListedBytes \subseteq CommandValues

\* C12: get_erase_command is decided by membership in the listed commands
\* alone: Erase when Erase (0x43) is listed, with or without ExtendedErase;
\* ExtendedErase when only ExtendedErase (0x44) is listed; the Unsupported
\* error when neither is; and when get_commands fails, its error.
C12_GetEraseCommand ==
    op.name = "get_erase_command" =>
        IF GetExchangeSucceeded
        THEN /\ 67 \in ListedBytes => (ret.t = "Ok" /\ ret.v = "Erase")
             /\ (67 \notin ListedBytes /\ 68 \in ListedBytes) =>
                   (ret.t = "Ok" /\ ret.v = "ExtendedErase")
             /\ (67 \notin ListedBytes /\ 68 \notin ListedBytes) => ret.t = "Unsupported"
        ELSE ret.t \notin {"Ok", "Unsupported"}

\* get_erase_command has returned Erase for a list that names ExtendedErase
\* before Erase
C12_Witness ==
    /\ op.name = "get_erase_command"
    /\ Len(io) = 5
    /\ io[4].b = << 49, 68, 67 >>
    /\ ret.t = "Ok"
    /\ ret.v = "Erase"

\* where, among the writes and reads of a session operation, the code reads
\* an ack
AckPositions ==
    [get_version |-> {2, 5}, get_id |-> {2}, get_commands |-> {2, 5},
     get_erase_command |-> {2, 5}, standard_erase |-> {2, 6},
     extended_erase |-> {2, 5}, write_memory |-> {2, 5, 9}, read_memory |-> {2, 5, 8}]

\* C13: an ack read consumes exactly 1 byte b.  It succeeds iff b = 0x79,
\* gives the Nack error iff b = 0x1F and InvalidResponse(b) for every other
\* b.  In a session operation a Nack or an invalid byte at an ack ends the
\* operation with that error at once: nothing is written or read after it.
C13_AckSubprotocol ==
    /\ op.name = "read_ack" =>
          /\ Len(io) = 1 /\ io[1].k = "r" /\ io[1].b = << op.script[1] >>
          /\ serial.rx = << Response.Ack >>
          /\ ret.t = "Ok" <=> op.script[1] = 121
          /\ ret.t = "Nack" <=> op.script[1] = 31
          /\ op.script[1] \notin {121, 31} =>
                ret.t = "InvalidResponse" /\ ret.v = op.script[1]
    /\ op.name \in SessionOps =>
          /\ \A i \in AckPositions[op.name] : Len(Traffic) >= i =>
                /\ Traffic[i].k = "r"
                /\ Len(Traffic[i].b) <= 1
                /\ Len(Traffic[i].b) = 1 =>
                      /\ Traffic[i].b[1] = 121 =>
                            ~(Len(Traffic) = i /\ ret.t \in {"Nack", "InvalidResponse"})
                      /\ Traffic[i].b[1] = 31 =>
                            ret.t = "Nack" /\ Len(Traffic) = i /\ io[Len(io)].k = "r"
                      /\ Traffic[i].b[1] \notin {121, 31} =>
                            /\ ret.t = "InvalidResponse" /\ ret.v = Traffic[i].b[1]
                            /\ Len(Traffic) = i /\ io[Len(io)].k = "r"
          /\ ret.t = "Nack" =>
                /\ Len(Traffic) \in AckPositions[op.name]
                /\ io[Len(io)] = Event("r", << Response.Nack >>)

\* write_memory has ended with InvalidResponse at the ack of the address
\* frame, and has sent no data frame
C13_Witness ==
    /\ op.name = "write_memory"
    /\ ret.t = "InvalidResponse"
    /\ ret.v = 85
    /\ Len(Traffic) = 5
    /\ Len(Written) = 2 + 5

\* C14: BootloaderCommand::try_from is total on bytes.  On b it succeeds iff
\* b is one of the 15 command values, and fails with
\* InvalidBootloaderCommand(b) otherwise; the command it gives has the byte
\* value b, and every command whose byte value is b is the one it gives.
C14_DecodeCommand ==
    op.name = "BootloaderCommand::try_from" =>
        /\ {BootloaderCommand[c] : c \in DOMAIN BootloaderCommand} = CommandValues
        /\ Cardinality(DOMAIN BootloaderCommand) = 15
        /\ ret.t = "Ok" <=> op.arg[1] \in CommandValues
        /\ op.arg[1] \notin CommandValues =>
              ret.t = "InvalidBootloaderCommand" /\ ret.v = op.arg[1]
        /\ ret.t = "Ok" => BootloaderCommand[ret.v] = op.arg[1]
        /\ \A c \in DOMAIN BootloaderCommand :
              BootloaderCommand[c] = op.arg[1] => (ret.t = "Ok" /\ ret.v = c)

\* the byte 0x44 has been decoded, as ExtendedErase
C14_Witness ==
    /\ op.name = "BootloaderCommand::try_from"
    /\ op.arg = << 68 >>
    /\ ret.t = "Ok"
    /\ ret.v = "ExtendedErase"

\* the command of every session operation, by the wire-format table
OpCommand ==
    [get_version |-> "GetVersion", get_id |-> "GetId", get_commands |-> "Get",
     get_erase_command |-> "Get", standard_erase |-> "Erase",
     extended_erase |-> "ExtendedErase", write_memory |-> "WriteMemory",
     read_memory |-> "ReadMemory"]

\* C15: a session operation that talks to the bootloader first writes the
\* two bytes [cmd, ~cmd] of its command, the second the bitwise complement of
\* the first, then reads one ack; unless that ack is Ack it writes nothing
\* more.
C15_CommandHeader ==
    (op.name \in SessionOps /\ io # << >>) =>
        /\ io[1].k = "w"
        /\ Len(io[1].b) = 2
        /\ io[1].b[1] = BootloaderCommand[OpCommand[op.name]]
        /\ Xor8(io[1].b[1], io[1].b[2]) = 255
        /\ Len(io) >= 2
        /\ io[2].k = "r"
        /\ Len(io[2].b) <= 1
        /\ io[2].b # << Response.Ack >> => Len(CallsOf("w")) = 1

\* bit k of the byte x
Bit(x, k) == (x \div (2 ^ k)) % 2

\* whether an odd number of the bytes of seq have bit k set: bit k of the
\* XOR of all of them
OddBit(seq, k) == Cardinality({i \in 1..Len(seq) : Bit(seq[i], k) = 1}) % 2

\* C16: write_with_checksum(s) puts on the wire the bytes of s and then one
\* byte, the checksum: the XOR of all bytes of s, seed 0 (bit by bit, set iff
\* an odd number of the bytes have the bit set).  The XOR of s followed by
\* its checksum is 0, and so is the XOR of the checksum with itself.
C16_ChecksumLaw ==
    op.name = "write_with_checksum" =>
        /\ io = << Event("w", op.arg), Event("w", << io[2].b[1] >>) >>
        /\ Written = Append(op.arg, io[2].b[1])
        /\ io[2].b[1] \in 0..255
        /\ \A k \in 0..7 : Bit(io[2].b[1], k) = OddBit(op.arg, k)
        /\ \A k \in 0..7 : OddBit(Written, k) = 0
        /\ io[2].b[1] = XorFold(0, op.arg)
        /\ XorFold(0, Written) = 0
        /\ Xor8(io[2].b[1], io[2].b[1]) = 0
        /\ ret.t = "Ok" /\ ret.v = Len(op.arg) + 1

\* write_with_checksum has sent a 256-byte buffer and its checksum
C16_Witness ==
    /\ op.name = "write_with_checksum"
    /\ Len(op.arg) = 256
    /\ Len(Written) = 257
    /\ ret.t = "Ok"

\* C17: for every byte b, Version::from(b).value() is (major, minor) with
\* major the high nibble and minor the low nibble of b: both are in 0..15 and
\* 16 * major + minor = b.  0x10 gives (1, 0) and 0xAB gives (10, 11).
C17_VersionUnpacking ==
    op.name = "Version::value" =>
        /\ ret.t = "Ok"
        /\ Len(ret.v) = 2
        /\ ret.v[1] \in 0..15
        /\ ret.v[2] \in 0..15
        /\ 16 * ret.v[1] + ret.v[2] = op.arg[1]
        /\ op.arg[1] = 16 => ret.v = << 1, 0 >>
        /\ op.arg[1] = 171 => ret.v = << 10, 11 >>

\* the version byte 0xAB has been unpacked, as 10.11
C17_Witness ==
    op.name = "Version::value" /\ op.arg = << 171 >> /\ ret.v = << 10, 11 >>

\* C18: for an address at or above the base, the planned pages are a
\* contiguous ascending range that starts at (address - base) / page_size,
\* rounded down, and has ceil(length / page_size) pages, the least number of
\* pages that hold length bytes.  Address 0x08000000 and length 300 give
\* [0, 1, 2]; length 0 gives the empty plan.
C18_ErasePlan ==
    (op.name = "erase" /\ op.addr >= 134217728) =>
        /\ Len(plan) * 128 >= op.size
        /\ (Len(plan) - 1) * 128 < op.size
        /\ \A i \in 1..Len(plan) : plan[i] = plan[1] + i - 1
        /\ plan # << >> =>
              /\ plan[1] * 128 <= op.addr - 134217728
              /\ (plan[1] + 1) * 128 > op.addr - 134217728
        /\ (op.addr = 134217728 /\ op.size = 300) => plan = << 0, 1, 2 >>
        /\ op.size = 0 => plan = << >>

\* erase has planned pages 1, 2, 3 for 300 bytes at an address within page 1
C18_Witness ==
    /\ op.name = "erase"
    /\ op.addr = 134217728 + 200
    /\ op.size = 300
    /\ plan = << 1, 2, 3 >>

\* the calls of one operation the orchestrator made, in order
CallsNamed(name) == SelectSeq(calls, LAMBDA c : c.name = name)

\* the data of the calls cs, concatenated
RECURSIVE DataOf(_)
DataOf(cs) == IF cs = << >> THEN << >> ELSE Head(cs).data \o DataOf(Tail(cs))

\* the flash paths: the library's flash and the Flash arms of the two mains
FlashOps == {"flash", "main_flash", "bin_main_flash"}

\* C19: a flash that returned without failure has written an image of L bytes
\* by exactly ceil(L / 256) write_memory calls in increasing chunk order:
\* chunk i carries the image bytes [256 i, min(256 (i + 1), L)) to the address
\* base + 256 i, every chunk has 1 to 256 bytes, and the chunks concatenated
\* are the image.  300 bytes at 0x08000000 give two calls: 256 bytes at
\* 0x08000000, then 44 bytes at 0x08000100.
C19_FlashChunking ==
    (op.name \in FlashOps /\ ret.t = "Ok") =>
        /\ Len(CallsNamed("write_memory")) * 256 >= Len(op.arg)
        /\ (Len(CallsNamed("write_memory")) - 1) * 256 < Len(op.arg)
        /\ \A i \in 1..Len(CallsNamed("write_memory")) :
              /\ CallsNamed("write_memory")[i].addr = op.addr + 256 * (i - 1)
              /\ CallsNamed("write_memory")[i].data
                    = SubSeq(op.arg, 256 * (i - 1) + 1, Min(256 * i, Len(op.arg)))
              /\ Len(CallsNamed("write_memory")[i].data) \in 1..256
        /\ DataOf(CallsNamed("write_memory")) = op.arg
        /\ (op.addr = 134217728 /\ Len(op.arg) = 300) =>
              /\ Len(CallsNamed("write_memory")) = 2
              /\ CallsNamed("write_memory")[1].addr = 134217728
              /\ Len(CallsNamed("write_memory")[1].data) = 256
              /\ CallsNamed("write_memory")[2].addr = 134217984
              /\ Len(CallsNamed("write_memory")[2].data) = 44

\* flash has written a 300-byte image in two chunks and returned Ok
C19_Witness ==
    /\ op.name = "flash"
    /\ Len(op.arg) = 300
    /\ ret.t = "Ok"
    /\ Len(CallsNamed("write_memory")) = 2

\* the write_memory and read_memory calls the orchestrator made, in order
MemoryCalls == SelectSeq(calls, LAMBDA c : c.name \in {"write_memory", "read_memory"})

\* C20: on every flash path that verifies, the read_memory of chunk i, with
\* the address and the length of its write, is issued right after the
\* write_memory of chunk i and before the write_memory of chunk i + 1: a
\* write that succeeded is followed at once by its read, and no path puts
\* the reads after all the writes.
C20_InterleavedVerification ==
    (op.name \in FlashOps /\ ~op.skip) =>
        \A i \in 1..Len(MemoryCalls) :
            (MemoryCalls[i].name = "write_memory" /\ MemoryCalls[i].ret.t = "Ok") =>
                /\ i < Len(MemoryCalls)
                /\ MemoryCalls[i + 1].name = "read_memory"
                /\ MemoryCalls[i + 1].addr = MemoryCalls[i].addr
                /\ Len(MemoryCalls[i + 1].data) = Len(MemoryCalls[i].data)

\* where in io read_memory read its data: the read after the flush after the
\* two bytes [n, !n]
ReadBackAt ==
    {j \in 3..Len(io) :
        /\ io[j].k = "r"
        /\ io[j - 1].k = "f"
        /\ io[j - 2].k = "w"
        /\ Len(io[j - 2].b) = 2
        /\ io[j - 2].b[2] = Not8(io[j - 2].b[1])}

\* the bytes the k-th read_memory read back
ReadBack(k) ==
    io[CHOOSE j \in ReadBackAt : Cardinality({i \in ReadBackAt : i <= j}) = k].b

\* C21: a verification mismatch is fatal.  When the bytes read back for
\* chunk k differ from the chunk written, the flash stops with the offset of
\* the first differing byte and issues no write_memory and no read_memory for
\* a later chunk; when verification is skipped no read_memory is issued.
C21_VerificationMismatch ==
    op.name \in FlashOps =>
        /\ op.skip => CallsNamed("read_memory") = << >>
        /\ \A k \in 1..Len(CallsNamed("read_memory")) :
              (/\ CallsNamed("read_memory")[k].ret.t = "Ok"
               /\ k <= Len(CallsNamed("write_memory"))
               /\ ReadBack(k) # CallsNamed("write_memory")[k].data) =>
                  /\ ret = VerificationFailed(
                               FirstDifference(CallsNamed("write_memory")[k].data, ReadBack(k)))
                  /\ Len(CallsNamed("read_memory")) = k
                  /\ Len(CallsNamed("write_memory")) = k

\* the positions in calls of the calls of one operation
CallsAt(name) == {i \in 1..Len(calls) : calls[i].name = name}

EraseCallNames == {"get_erase_command", "standard_erase", "extended_erase"}

\* the pages the erase calls before position i were given
ErasedBefore(i) ==
    UNION {{calls[j].data[k] : k \in 1..Len(calls[j].data)} :
              j \in {j \in 1..(i - 1) : calls[j].name \in {"standard_erase", "extended_erase"}}}

\* the pages that hold the bytes of the write_memory call c
PagesWritten(c) ==
    ((c.addr - DEFAULT_START_ADDRESS) \div DEFAULT_PAGE_SIZE)
        .. ((c.addr + Len(c.data) - 1 - DEFAULT_START_ADDRESS) \div DEFAULT_PAGE_SIZE)

\* C22: erase precedes write.  In one flash run get_erase_command and every
\* erase call have completed successfully before the first write_memory: a
\* write_memory is issued only after the erase of the pages it writes, no
\* erase call comes after a write, and a failed erase prevents every write.
C22_ErasePrecedesWrite ==
    op.name \in FlashOps =>
        \A i \in CallsAt("write_memory") :
            /\ CallsAt("get_erase_command") # {}
            /\ \A j \in 1..Len(calls) :
                  calls[j].name \in EraseCallNames => (j < i /\ calls[j].ret.t = "Ok")
            /\ PagesWritten(calls[i]) \subseteq ErasedBefore(i)

\* C23: initialize writes exactly one byte, 0x7F, then consumes exactly one
\* response byte and succeeds whatever its value, and nothing else is written
\* or read before it returns the session; skip_initialization writes no byte
\* and reads no byte.
C23_InitializationHandshake ==
    /\ (op.name = "initialize" /\ op.script # << >>) =>
          /\ ret.t = "Ok"
          /\ io = << Event("w", << 127 >>), Event("r", << op.script[1] >>) >>
          /\ serial.rx = Tail(op.script)
    /\ op.name = "skip_initialization" =>
          /\ ret.t = "Ok"
          /\ io = << >>
          /\ serial.rx = op.script

\* initialize has succeeded on a Nack that had an Ack behind it
C23_Witness ==
    /\ op.name = "initialize"
    /\ op.script = << 31, 121 >>
    /\ ret.t = "Ok"
    /\ serial.rx = << 121 >>

\* C24: empty input is a no-op.  standard_erase with no pages, extended_erase
\* with no pages, write_memory with no bytes and read_memory with an empty
\* destination return success, write no byte to the stream and read no byte
\* from it.
C24_EmptyInputNoOp ==
    (/\ op.name \in {"standard_erase", "extended_erase", "write_memory", "read_memory"}
     /\ op.arg = << >>) =>
        /\ ret.t = "Ok"
        /\ io = << >>
        /\ env = "double" => serial.rx = op.script

\* write_memory has returned from a call with no bytes, its answers unread
C24_Witness ==
    /\ op.name = "write_memory"
    /\ op.arg = << >>
    /\ op.script = << 121, 121, 121 >>
    /\ ret.t = "Ok"
    /\ serial.rx = << 121, 121, 121 >>

\* the pages planned by the last erase
Planned == {plan[i] : i \in 1..Len(plan)}

\* C25: the erase plan covers the range.  For an address at or above the
\* base and a length above 0, every flash page that holds a byte of
\* [address, address + length) is in the plan, also when the address is not a
\* multiple of the page size.
C25_PlanCoversRange ==
    (op.name = "erase" /\ op.addr >= 134217728 /\ op.size > 0) =>
        \A p \in ((op.addr - 134217728) \div 128)
                    .. ((op.addr + op.size - 1 - 134217728) \div 128) :
            p \in Planned

\* the writes and reads of write_memory(op.addr, op.arg) in their order: the
\* header, an ack, the address frame, an ack, the data frame, an ack
WriteMemoryOrder ==
    << Event("w", << 49, 206 >>),
       Event("r", << 121 >>),
       Event("w", U32ToBe(op.addr)),
       Event("w", << Xor8(Xor8(U32ToBe(op.addr)[1], U32ToBe(op.addr)[2]),
                          Xor8(U32ToBe(op.addr)[3], U32ToBe(op.addr)[4])) >>),
       Event("r", << 121 >>),
       Event("w", << Len(op.arg) - 1 >>),
       Event("w", op.arg),
       Event("w", << XorFold(Len(op.arg) - 1, op.arg) >>),
       Event("r", << 121 >>) >>

\* C26: write_memory writes the WriteMemory header, reads an ack, writes the
\* 4-byte big-endian address and the XOR of its bytes, reads an ack, and only
\* then writes the data frame [n - 1, data.., checksum], the checksum being
\* n - 1 XOR every data byte, then reads the last ack.  What it has written
\* and read is always a beginning of that order; the data frame is there only
\* when both acks before it were Ack, and a call that succeeds has gone
\* through all of it.
C26_WriteMemoryOrder ==
    (op.name = "write_memory" /\ Len(op.arg) \in 1..256) =>
        /\ Len(Traffic) \in 1..9
        /\ \A i \in 1..Len(Traffic) :
              /\ Traffic[i].k = WriteMemoryOrder[i].k
              /\ Traffic[i].k = "w" => Traffic[i] = WriteMemoryOrder[i]
              /\ i < Len(Traffic) => Traffic[i] = WriteMemoryOrder[i]
        /\ Len(Traffic) >= 6 => Len(Traffic) = 9
        /\ ret.t = "Ok" => Traffic = WriteMemoryOrder

\* write_memory has gone through both frames
C26_Witness ==
    /\ op.name = "write_memory"
    /\ op.arg = << 165 >>
    /\ ret.t = "Ok"
    /\ Len(Traffic) = 9
    /\ Traffic[8] = Event("w", << 165 >>)

\* the paths that plan and erase: erase and the Flash arms of the two mains
ErasingOps == {"erase", "main_flash", "bin_main_flash"}

\* get_erase_command has answered the last operation with Erase: the
\* bootloader lists Erase; the answers the doubles are scripted with list no
\* other erase command
CapabilityErase ==
    /\ calls # << >>
    /\ calls[1].name = "get_erase_command"
    /\ calls[1].ret.t = "Ok"
    /\ env = "device" => DevSupports(serial.dev, BootloaderCommand.Erase)

\* C27: when the capability is Erase and a planned page is above 255, the
\* whole plan is rejected with a fatal error and no standard_erase is issued
\* for any page, those that fit in one byte included: no Erase header is
\* written and no page is truncated modulo 256.
C27_StandardEraseRangeCheck ==
    (/\ op.name \in ErasingOps
     /\ CapabilityErase
     /\ \E i \in 1..Len(plan) : plan[i] > 255) =>
        /\ IsPanic(ret)
        /\ Len(calls) = 1
        /\ \A i \in 1..Len(io) : io[i] # Event("w", << 67, 188 >>)

\* erase has rejected the plan 255, 256, 257 after get_erase_command
C27_Witness ==
    /\ op.name = "erase"
    /\ CapabilityErase
    /\ plan = << 255, 256, 257 >>
    /\ ret.t = "Panic"
    /\ Len(calls) = 1

\* C28: when the capability is Erase and every planned page is at most 255,
\* the standard_erase calls carry 1 to 255 pages each, in plan order, every
\* call but the last 255 of them; a failing call is the last call made, and
\* when none fails the page lists concatenated are the plan, no page lost or
\* repeated.  The plan 0..255 gives two calls, of 255 pages and of 1 page.
C28_StandardEraseChunking ==
    (/\ op.name \in ErasingOps
     /\ CapabilityErase
     /\ \A i \in 1..Len(plan) : plan[i] <= 255) =>
        /\ \A k \in 1..Len(CallsNamed("standard_erase")) :
              /\ Len(CallsNamed("standard_erase")[k].data) \in 1..255
              /\ k < Len(CallsNamed("standard_erase")) =>
                    /\ Len(CallsNamed("standard_erase")[k].data) = 255
                    /\ CallsNamed("standard_erase")[k].ret.t = "Ok"
        /\ Len(DataOf(CallsNamed("standard_erase"))) <= Len(plan)
        /\ DataOf(CallsNamed("standard_erase"))
              = SubSeq(plan, 1, Len(DataOf(CallsNamed("standard_erase"))))
        /\ \A i \in 1..Len(calls) :
              (calls[i].name = "standard_erase" /\ calls[i].ret.t # "Ok") =>
                  i = Len(calls) /\ ret = calls[i].ret
        /\ (\A i \in 1..Len(calls) : calls[i].name = "standard_erase" => calls[i].ret.t = "Ok") =>
              /\ DataOf(CallsNamed("standard_erase")) = plan
              /\ Len(plan) = 256 =>
                    /\ Len(CallsNamed("standard_erase")) = 2
                    /\ CallsNamed("standard_erase")[1].data = PageRange(0, 255)
                    /\ CallsNamed("standard_erase")[2].data = << 255 >>

\* erase has erased the pages 0..255 in two calls
C28_Witness ==
    /\ op.name = "erase"
    /\ plan = PageRange(0, 256)
    /\ ret.t = "Ok"
    /\ Len(CallsNamed("standard_erase")) = 2

\* the first of two standard_erase calls has failed and no second was made
C28_WitnessFailing ==
    /\ op.name = "erase"
    /\ plan = PageRange(0, 256)
    /\ Len(CallsNamed("standard_erase")) = 1
    /\ ret.t # "Ok"

\* C29: an address below the base is rejected.  For every address below
\* 0x08000000 the erase planning fails: address - base never wraps around
\* into a page index, so no page is planned, and no erase command is issued.
C29_AddressBelowBase ==
    (op.name \in ErasingOps /\ op.addr < 134217728) =>
        /\ ret.t # "Ok"
        /\ plan = << >>
        /\ CallsNamed("standard_erase") = << >>
        /\ CallsNamed("extended_erase") = << >>

\* the sentinel of every bank, by the wire-format table
BankSentinel == << << 255, 255, 0 >>, << 255, 254, 1 >>, << 255, 253, 2 >> >>

\* the writes and reads of a global erase in their order: the header, an
\* ack, the payload, an ack
GlobalEraseOrder ==
    IF op.name = "standard_global_erase"
    THEN << Event("w", << 67, 188 >>), Event("r", << 121 >>),
            Event("w", << 255, 0 >>), Event("r", << 121 >>) >>
    ELSE << Event("w", << 68, 187 >>), Event("r", << 121 >>),
            Event("w", BankSentinel[op.arg[1] + 1]), Event("r", << 121 >>) >>

====
